---- MODULE Spec2Model ----
(***************************************************************************)
(* Booking calendar: the booking acceptance guard (createBooking), the     *)
(* availability slot engine (getAvailableSlots), the date helpers they are *)
(* built on (generateTimeSlots, doTimesOverlap, isSlotAvailable) and the   *)
(* owner's settings and schedule actions (getCalendarSettings,             *)
(* saveCalendarSettings, getSchedule, saveSchedule).                       *)
(*                                                                         *)
(* Instants are integers: seconds since Sunday 00:00:00 of a reference     *)
(* week, in the one time zone the server runs in.  A JavaScript Date also  *)
(* carries milliseconds; every operation modelled here treats them exactly *)
(* as it treats the seconds, so the seconds stand for the whole sub-minute *)
(* part of a Date.                                                         *)
(***************************************************************************)
EXTENDS Integers, Sequences, FiniteSets, TLC

VARIABLES
  now,        \* the server clock: what `new Date()` returns
  events,     \* rows of the events table
  bookings,   \* rows of the bookings table
  nextId,     \* the next primary key the store generates
  calls,      \* the createBooking call of every visitor: position and locals
  started,    \* number of createBooking calls started so far
  rules,      \* rows of the availability_rules table
  slotsReq,   \* parameters of the last getAvailableSlots call
  slotsOut,   \* what the last getAvailableSlots call returned
  avIn,       \* arguments of isSlotAvailable
  avOut,      \* its result
  genIn,      \* arguments of generateTimeSlots
  genOut,     \* its result
  loop,       \* locals of generateTimeSlots while its loop runs
  session,    \* the user of the caller's session, NoUser for a visitor
  settings,   \* rows of the calendar_settings table
  adminOut,   \* what the last settings or schedule action returned
  saving      \* the saveSchedule calls between their delete and their insert

vars == <<now, events, bookings, nextId, calls, started, rules, slotsReq,
          slotsOut, avIn, avOut, genIn, genOut, loop, session, settings,
          adminOut, saving>>

bookingVars == <<now, events, bookings, nextId, calls, started>>
slotVars == <<rules, slotsReq, slotsOut>>
helperVars == <<avIn, avOut, genIn, genOut, loop>>
adminVars == <<session, settings, adminOut, saving>>

----------------------------------------------------------------------------
(* Bounds of the model.                                                    *)

MaxCalls == 3        \* createBooking calls started in one behaviour
MaxTicks == 1        \* seconds the clock advances past ClockStart
MaxDays == 2         \* largest `days` of a getAvailableSlots call
MaxBooked == 2       \* longest bookedSlots list given to isSlotAvailable
MaxIterations == 40  \* loop iterations of one generateTimeSlots call
MaxSaving == 2       \* saveSchedule calls running side by side
MaxEvents == 2       \* ids the events and bookings of one behaviour use up

Callers == {1, 2}

None == [none |-> TRUE]

\* The one user of the installation: the calendar's owner.
Owner == "owner"

\* What getCurrentUser returns for a caller who is not signed in.
NoUser == "nobody"

----------------------------------------------------------------------------
(* date-fns helpers, on instants in seconds.                               *)

At(day, h, m, s) == day * 86400 + h * 3600 + m * 60 + s

\* addMinutes that adds nothing.
addMinutesNone(t, n) == t

addMinutes(t, n) == t + n * 60
addDays(t, n) == t + n * 86400
isBefore(a, b) == a < b
isAfter(a, b) == a > b
getDay(t) == (t \div 86400) % 7
\* Date.prototype.setHours(h) / setMinutes(m) with one argument: every other
\* component of the date is kept, seconds (and milliseconds) included.
setHours(t, h) == t - ((t % 86400) \div 3600) * 3600 + h * 3600
setMinutes(t, m) == t - ((t % 3600) \div 60) * 60 + m * 60
\* Date.prototype.toDateString(): the calendar day, here its index.
toDateString(t) == t \div 86400

----------------------------------------------------------------------------
(* createBookingSchema: the issues safeParse reports, in schema order.     *)
(* A string field is modelled by what the schema reads of it: a datetime   *)
(* string by whether it parses and the instant it denotes, name and notes  *)
(* by their length, the email by whether it has the email format and its   *)
(* length, the phone by whether it matches the pattern; "absent" / -1 is   *)
(* an omitted (or null) optional field.                                    *)

IssueIf(cond, msg) == IF cond THEN <<msg>> ELSE <<>>

Reverse(s) == [i \in 1..Len(s) |-> s[Len(s) + 1 - i]]

\* The issues collected in the opposite order.
createBookingSchemaReversed(input) ==
  Reverse(
       IssueIf(~input.slot_start.ok, "Fecha de inicio invalida")
    \o IssueIf(~input.slot_end.ok, "Fecha de fin invalida")
    \o IssueIf(input.name < 2, "El nombre debe tener al menos 2 caracteres")
    \o IssueIf(input.name > 255, "El nombre debe tener maximo 255 caracteres")
    \o IssueIf(~input.email.format, "Email invalido")
    \o IssueIf(input.email.len > 255, "El email debe tener maximo 255 caracteres")
    \o IssueIf(input.phone = "nomatch", "Telefono invalido")
    \o IssueIf(input.notes > 1000, "Las notas deben tener maximo 1000 caracteres"))

createBookingSchema(input) ==
     IssueIf(~input.slot_start.ok, "Fecha de inicio invalida")
  \o IssueIf(~input.slot_end.ok, "Fecha de fin invalida")
  \o IssueIf(input.name < 2, "El nombre debe tener al menos 2 caracteres")
  \o IssueIf(input.name > 255, "El nombre debe tener maximo 255 caracteres")
  \o IssueIf(~input.email.format, "Email invalido")
  \o IssueIf(input.email.len > 255, "El email debe tener maximo 255 caracteres")
  \o IssueIf(input.phone = "nomatch", "Telefono invalido")
  \o IssueIf(input.notes > 1000, "Las notas deben tener maximo 1000 caracteres")

----------------------------------------------------------------------------
(* The store.                                                              *)

\* CHECK constraints of the events table.
valid_time_range(row) == row.end_time > row.start_time
valid_duration(row) == row.end_time - row.start_time <= 24 * 3600

\* The lookup with end_time compared to the slot's start.
EventsAtTypo(evs, s, e) == {ev \in evs : ev.start_time = s /\ ev.end_time = s}

\* .eq('start_time', s).eq('end_time', e)
EventsAt(evs, s, e) == {ev \in evs : ev.start_time = s /\ ev.end_time = e}

\* .maybeSingle(): no row is null, one row is the row, several rows are an error.
maybeSingle(rows, fails) ==
  IF fails \/ Cardinality(rows) > 1 THEN [error |-> TRUE, data |-> None]
  ELSE IF rows = {} THEN [error |-> FALSE, data |-> None]
  ELSE [error |-> FALSE, data |-> CHOOSE r \in rows : TRUE]

----------------------------------------------------------------------------
(* createBooking.                                                          *)

ClockStart == At(1, 9, 0, 0)      \* Monday 09:00:00

Failure(msg) == [success |-> FALSE, error |-> msg]
Success == [success |-> TRUE, error |-> ""]

PastMsg == "No se puede reservar un horario pasado"
CheckMsg == "Error al verificar disponibilidad"
BookedMsg == "Este horario ya fue reservado"
EventMsg == "Error al crear el evento"
BookingMsg == "Error al crear la reserva"

IdleCall ==
  [pc |-> "idle", input |-> None, acceptedAt |-> -1, eventId |-> 0,
   result |-> None, ops |-> <<>>]

\* The check left out.
PastSlotOff(slotStart, t) == FALSE

\* if (slotStart < new Date())
PastSlot(slotStart, t) == slotStart < t

Finish(c, res, op) ==
  [calls EXCEPT ![c].pc = "done", ![c].result = res,
                ![c].ops = IF op = "" THEN @ ELSE Append(@, op)]

\* Lines 27-45: validation and the past-slot check run without a store call.
CreateBookingStart(c, input) ==
  /\ calls[c].pc = "idle"
  /\ started < MaxCalls
  /\ started' = started + 1
  /\ LET issues == createBookingSchema(input)
         begun == [calls EXCEPT ![c].input = input, ![c].acceptedAt = now]
     IN  calls' =
           IF issues # <<>>
             THEN [begun EXCEPT ![c].pc = "done", ![c].acceptedAt = -1,
                                ![c].result = Failure(issues[1])]
           ELSE IF PastSlot(input.slot_start.t, now)
             THEN [begun EXCEPT ![c].pc = "done", ![c].result = Failure(PastMsg)]
           ELSE [begun EXCEPT ![c].pc = "lookup"]
  /\ UNCHANGED <<now, events, bookings, nextId>>

\* Lines 47-68: the existing-event query.
CheckExisting(c, fails) ==
  /\ calls[c].pc = "lookup"
  /\ LET inp == calls[c].input
         res == maybeSingle(EventsAt(events, inp.slot_start.t, inp.slot_end.t), fails)
     IN  calls' =
           IF res.error THEN Finish(c, Failure(CheckMsg), "select events")
           ELSE IF res.data # None THEN Finish(c, Failure(BookedMsg), "select events")
           ELSE [calls EXCEPT ![c].pc = "insertEvent",
                              ![c].ops = Append(@, "select events")]
  /\ UNCHANGED <<now, events, bookings, nextId, started>>

\* Lines 70-90: the event insert.  The row names no creator: created_by is
\* NULL, written here as NoUser.
InsertEvent(c, fails) ==
  /\ calls[c].pc = "insertEvent"
  /\ LET inp == calls[c].input
         row == [id |-> nextId, start_time |-> inp.slot_start.t,
                 end_time |-> inp.slot_end.t, is_public |-> TRUE,
                 event_type |-> "booking", created_by |-> NoUser]
     IN  IF fails \/ ~valid_time_range(row) \/ ~valid_duration(row)
           THEN /\ calls' = Finish(c, Failure(EventMsg), "insert events")
                /\ UNCHANGED <<events, nextId>>
           ELSE /\ events' = events \cup {row}
                /\ nextId' = nextId + 1
                /\ calls' = [calls EXCEPT ![c].pc = "insertBooking",
                                          ![c].eventId = row.id,
                                          ![c].ops = Append(@, "insert events")]
  /\ UNCHANGED <<now, bookings, started>>

\* Lines 92-121: the booking insert.
InsertBooking(c, fails) ==
  /\ calls[c].pc = "insertBooking"
  /\ IF fails \/ ~\E ev \in events : ev.id = calls[c].eventId
       THEN /\ calls' = [calls EXCEPT ![c].pc = "rollback",
                                      ![c].ops = Append(@, "insert bookings")]
            /\ UNCHANGED <<bookings, nextId>>
       ELSE /\ bookings' = bookings \cup
                 {[id |-> nextId, event_id |-> calls[c].eventId,
                   status |-> "confirmed"]}
            /\ nextId' = nextId + 1
            /\ calls' = Finish(c, Success, "insert bookings")
  /\ UNCHANGED <<now, events, started>>

\* Lines 105-113: the rollback delete; its result is not looked at.
Rollback(c, fails) ==
  /\ calls[c].pc = "rollback"
  /\ events' = IF fails THEN events
               ELSE {ev \in events : ev.id # calls[c].eventId}
  /\ bookings' = IF fails THEN bookings
                 ELSE {b \in bookings : b.event_id # calls[c].eventId}
  /\ calls' = Finish(c, Failure(BookingMsg), "delete events")
  /\ UNCHANGED <<now, nextId, started>>

\* The caller has its answer; the visitor may submit again.
Return(c) ==
  /\ calls[c].pc = "done"
  /\ calls' = [calls EXCEPT ![c] = IdleCall]
  /\ UNCHANGED <<now, events, bookings, nextId, started>>

Tick ==
  /\ now < ClockStart + MaxTicks
  /\ now' = now + 1
  /\ UNCHANGED <<events, bookings, nextId, calls, started>>

----------------------------------------------------------------------------
(* dateHelpers: slot generation and overlap detection.                     *)
(* A wall-clock time string 'HH:MM' is the pair <<HH, MM>> that            *)
(* split(':').map(Number) makes of it.                                     *)

RECURSIVE SlotLoop(_, _, _, _, _)
\* The while loop of generateTimeSlots.
SlotLoop(currentSlot, dayEnd, slotDuration, bufferTime, slots) ==
  IF ~isBefore(currentSlot, dayEnd) THEN slots
  ELSE LET slotEnd == addMinutes(currentSlot, slotDuration)
           pushed == IF isBefore(slotEnd, dayEnd) \/ slotEnd = dayEnd
                       THEN Append(slots, [start |-> currentSlot, end |-> slotEnd])
                       ELSE slots
       IN  SlotLoop(addMinutes(slotEnd, bufferTime), dayEnd, slotDuration,
                    bufferTime, pushed)

\* generateTimeSlots that leaves no buffer between slots.
generateTimeSlotsNoBuffer(date, config) ==
  SlotLoop(setMinutes(setHours(date, config.startTime[1]), config.startTime[2]),
           setMinutes(setHours(date, config.endTime[1]), config.endTime[2]),
           config.slotDuration, 0, <<>>)

generateTimeSlots(date, config) ==
  LET startHour == config.startTime[1]
      startMin == config.startTime[2]
      endHour == config.endTime[1]
      endMin == config.endTime[2]
      currentSlot == setMinutes(setHours(date, startHour), startMin)
      dayEnd == setMinutes(setHours(date, endHour), endMin)
  IN  SlotLoop(currentSlot, dayEnd, config.slotDuration, config.bufferTime, <<>>)

\* Overlap with touching endpoints counted.
doTimesOverlapTouching(start1, end1, start2, end2) ==
  start1 <= end2 /\ start2 <= end1

doTimesOverlap(start1, end1, start2, end2) ==
  \/ isBefore(start1, end2) /\ isAfter(end1, start2)
  \/ isBefore(start2, end1) /\ isAfter(end2, start1)

isSlotAvailable(slotStart, slotEnd, bookedSlots) ==
  ~\E i \in 1..Len(bookedSlots) :
      doTimesOverlap(slotStart, slotEnd, bookedSlots[i].start, bookedSlots[i].end)

\* The range with its latest day first.
getDateRangeReversed(startDate, days) ==
  [i \in 1..days |-> addDays(startDate, days - i)]

getDateRange(startDate, days) == [i \in 1..days |-> addDays(startDate, i - 1)]

----------------------------------------------------------------------------
(* getAvailableSlots.                                                      *)

\* A row of availability_rules, the owner's.
Rule(d, from, to, active) ==
  [user_id |-> Owner, day_of_week |-> d, start_time |-> from, end_time |-> to,
   is_active |-> active]

\* Default rules that end an hour early.
DEFAULT_AVAILABILITY_RULES_Short ==
  [d \in 1..5 |-> [Rule(d, <<9, 0>>, <<17, 0>>, TRUE) EXCEPT !.user_id = "default"]]

DEFAULT_AVAILABILITY_RULES ==
  [d \in 1..5 |-> [Rule(d, <<9, 0>>, <<18, 0>>, TRUE) EXCEPT !.user_id = "default"]]

\* The rows of a query in one of the orders the store may return them in.
Orderings(S) ==
  {q \in [1..Cardinality(S) -> S] : \A i, j \in 1..Cardinality(S) : q[i] = q[j] => i = j}

AnyOrder(S) == CHOOSE q \in Orderings(S) : TRUE

\* The query without its is_public filter.
FetchEventsAnyVisibility(evs, startDate, endDate) ==
  {ev \in evs : ev.start_time >= startDate /\ ev.end_time <= endDate}

\* .gte('start_time', startDate).lte('end_time', endDate).eq('is_public', true)
FetchEvents(evs, startDate, endDate) ==
  {ev \in evs : /\ ev.start_time >= startDate
                /\ ev.end_time <= endDate
                /\ ev.is_public}

\* rules.find((r) => r.day_of_week === dayOfWeek): the indexes that match.
Matching(rs, dayOfWeek) == {i \in 1..Len(rs) : rs[i].day_of_week = dayOfWeek}

\* The body of the for loop over dateRange, for one date.
DaySlots(date, rs, fetched, slotDuration, bufferTime) ==
  LET found == Matching(rs, getDay(date))
  IN  IF found = {} THEN <<>>
      ELSE LET dayRule == rs[CHOOSE i \in found : \A j \in found : i <= j]
               daySlots == generateTimeSlots(date,
                             [startTime |-> dayRule.start_time,
                              endTime |-> dayRule.end_time,
                              slotDuration |-> slotDuration,
                              bufferTime |-> bufferTime])
               sameDay == {ev \in fetched :
                             toDateString(ev.start_time) = toDateString(date)}
               bookedSlots == [i \in 1..Cardinality(sameDay) |->
                                 [start |-> AnyOrder(sameDay)[i].start_time,
                                  end |-> AnyOrder(sameDay)[i].end_time]]
           IN  [i \in 1..Len(daySlots) |->
                  [start |-> daySlots[i].start, end |-> daySlots[i].end,
                   available |-> isSlotAvailable(daySlots[i].start,
                                                 daySlots[i].end, bookedSlots)]]

RECURSIVE AllSlots(_, _, _, _, _, _)
AllSlots(dateRange, k, rs, fetched, slotDuration, bufferTime) ==
  IF k > Len(dateRange) THEN <<>>
  ELSE DaySlots(dateRange[k], rs, fetched, slotDuration, bufferTime)
       \o AllSlots(dateRange, k + 1, rs, fetched, slotDuration, bufferTime)

\* Row level security of availability_rules: a SELECT sees the rows of the
\* signed-in user; a visitor, who is not signed in, sees no row (and no error).
RulesVisibleTo(user) == {r \in rules : user # NoUser /\ r.user_id = user}

\* A failed call answers with its slots all the same.
SlotsAnyway(failed, slots) == slots

\* `return []` after a failed events read, and in the catch block.
SlotsOrEmpty(failed, slots) == IF failed THEN <<>> ELSE slots

\* One getAvailableSlots call.  thrown: an exception is raised inside the try
\* block on the way to the events query (creating the client, converting the
\* range to ISO strings) and the catch block answers.  eventsError, rulesError:
\* the store answers that query with an error.  rulesData: the active rules in
\* the order returned.
GetAvailableSlots(startDate, days, slotDuration, bufferTime, thrown, eventsError, rulesError, rulesData) ==
  /\ thrown => ~eventsError
  /\ (thrown \/ eventsError) => ~rulesError    \* the rules are not read then
  /\ rulesData \in Orderings({r \in RulesVisibleTo(session) : r.is_active})
  /\ LET dateRange == getDateRange(startDate, days)
         endDate == dateRange[Len(dateRange)]
         fetched == FetchEvents(events, startDate, endDate)
         rs == IF ~rulesError /\ Len(rulesData) > 0
                 THEN rulesData ELSE DEFAULT_AVAILABILITY_RULES
     IN  slotsOut' = SlotsOrEmpty(thrown \/ eventsError,
                       AllSlots(dateRange, 1, rs, fetched, slotDuration, bufferTime))
  /\ slotsReq' = [startDate |-> startDate, days |-> days,
                  slotDuration |-> slotDuration, bufferTime |-> bufferTime,
                  thrown |-> thrown, eventsError |-> eventsError,
                  rulesError |-> rulesError]
  /\ UNCHANGED <<rules, bookingVars, helperVars, adminVars>>

----------------------------------------------------------------------------
(* Inputs of createBooking.                                                *)

T0900 == At(1, 9, 0, 0)
T0930 == At(1, 9, 30, 0)
T1000 == At(1, 10, 0, 0)

Datetime(t) == [ok |-> TRUE, t |-> t]
BadDatetime == [ok |-> FALSE, t |-> 0]
GoodEmail == [format |-> TRUE, len |-> 20]

\* Every field valid, or broken in one of the ways the schema rejects.
BookingInputs ==
  [slot_start : {BadDatetime, Datetime(T0900), Datetime(T0930)},
   slot_end : {BadDatetime, Datetime(T0930), Datetime(T1000)},
   name : {1, 2, 256},
   email : {GoodEmail, [format |-> FALSE, len |-> 300]},
   phone : {"absent", "match", "nomatch"},
   notes : {-1, 1001}]

\* What the booking form submits: validated fields, one of a few slots.
FormInputs ==
  [slot_start : {Datetime(T0900), Datetime(T0930)},
   slot_end : {Datetime(T0930), Datetime(T1000)},
   name : {2}, email : {GoodEmail}, phone : {"absent"}, notes : {-1}]

InitBooking ==
  /\ now = ClockStart
  /\ events = {}
  /\ bookings = {}
  /\ nextId = 1
  /\ calls = [c \in Callers |-> IdleCall]
  /\ started = 0

InitSlotsIdle ==
  /\ rules = {}
  /\ slotsReq = None
  /\ slotsOut = <<>>

InitHelpersIdle ==
  /\ avIn = None
  /\ avOut = None
  /\ genIn = None
  /\ genOut = None
  /\ loop = None

\* Nobody signed in, no settings row, no admin action called yet.
InitAdminIdle ==
  /\ session = NoUser
  /\ settings = {}
  /\ adminOut = None
  /\ saving = {}

\* Visitors submitting the booking form concurrently: the store calls of their
\* createBooking calls interleave in any order.
Init ==
  /\ InitBooking
  /\ InitSlotsIdle
  /\ InitHelpersIdle
  /\ InitAdminIdle

OthersIdle == UNCHANGED <<slotVars, helperVars, adminVars>>

Next ==
  \/ \E c \in Callers, input \in FormInputs :
       CreateBookingStart(c, input) /\ OthersIdle
  \/ \E c \in Callers, fails \in BOOLEAN : CheckExisting(c, fails) /\ OthersIdle
  \/ \E c \in Callers, fails \in BOOLEAN : InsertEvent(c, fails) /\ OthersIdle
  \/ \E c \in Callers, fails \in BOOLEAN : InsertBooking(c, fails) /\ OthersIdle
  \/ \E c \in Callers, fails \in BOOLEAN : Rollback(c, fails) /\ OthersIdle
  \/ \E c \in Callers : Return(c) /\ OthersIdle
  \/ Tick /\ OthersIdle

Spec == Init /\ [][Next]_vars

\* One visitor, one call at a time, any input.
NextGuard ==
  \/ \E input \in BookingInputs : CreateBookingStart(1, input) /\ OthersIdle
  \/ \E fails \in BOOLEAN : CheckExisting(1, fails) /\ OthersIdle
  \/ \E fails \in BOOLEAN : InsertEvent(1, fails) /\ OthersIdle
  \/ \E fails \in BOOLEAN : InsertBooking(1, fails) /\ OthersIdle
  \/ \E fails \in BOOLEAN : Rollback(1, fails) /\ OthersIdle
  \/ Return(1) /\ OthersIdle
  \/ Tick /\ OthersIdle

SpecGuard == Init /\ [][NextGuard]_vars

----------------------------------------------------------------------------
(* The slot engine over a store that holds events and rules.               *)

Event(id, from, to, public) ==
  [id |-> id, start_time |-> from, end_time |-> to, is_public |-> public,
   event_type |-> "meeting", created_by |-> Owner]

EventPool ==
  {Event(1, At(1, 9, 0, 0), At(1, 9, 30, 0), TRUE),
   Event(2, At(1, 9, 30, 0), At(1, 10, 0, 0), FALSE),
   Event(3, At(1, 10, 0, 0), At(1, 10, 30, 0), TRUE),
   Event(4, At(2, 9, 15, 0), At(2, 9, 45, 0), TRUE)}

RuleSets ==
  {{},
   {Rule(1, <<9, 0>>, <<10, 0>>, TRUE)},
   {Rule(1, <<9, 0>>, <<10, 0>>, TRUE), Rule(2, <<9, 0>>, <<11, 0>>, FALSE)},
   {Rule(1, <<9, 0>>, <<10, 30>>, TRUE), Rule(2, <<9, 0>>, <<10, 0>>, TRUE)},
   {Rule(1, <<9, 0>>, <<10, 0>>, FALSE)}}

StartDates == {At(0, 0, 0, 0), At(1, 0, 0, 0), At(1, 8, 0, 0), At(1, 12, 0, 30)}
SlotDurations == {30, 45, 60}
BufferTimes == {0, 15}

InitSlots ==
  /\ now = ClockStart
  /\ events \in SUBSET EventPool
  /\ bookings = {}
  /\ nextId = Cardinality(EventPool) + 1
  /\ calls = [c \in Callers |-> IdleCall]
  /\ started = 0
  /\ rules \in RuleSets
  /\ slotsReq = None
  /\ slotsOut = <<>>
  /\ InitHelpersIdle
  /\ session \in {NoUser, Owner}
  /\ settings = {}
  /\ adminOut = None
  /\ saving = {}

\* A call leaves the store as it is, so a second call from the same store
\* reaches nothing the first one does not: one call per behaviour.
NextSlots ==
  /\ slotsReq = None
  /\ \E startDate \in StartDates, days \in 1..MaxDays,
        slotDuration \in SlotDurations, bufferTime \in BufferTimes,
        thrown \in BOOLEAN, eventsError \in BOOLEAN, rulesError \in BOOLEAN,
        rulesData \in Orderings({r \in RulesVisibleTo(session) : r.is_active}) :
       GetAvailableSlots(startDate, days, slotDuration, bufferTime,
                         thrown, eventsError, rulesError, rulesData)

SpecSlots == InitSlots /\ [][NextSlots]_vars

----------------------------------------------------------------------------
(* The date helpers applied to drawn arguments.                            *)

Interval(from, to) == [start |-> from, end |-> to]

IntervalPool ==
  {Interval(At(1, 8, 0, 0), At(1, 11, 0, 0)),
   Interval(At(1, 8, 30, 0), At(1, 9, 0, 0)),
   Interval(At(1, 9, 0, 0), At(1, 9, 30, 0)),
   Interval(At(1, 9, 15, 0), At(1, 9, 20, 0)),
   Interval(At(1, 9, 30, 0), At(1, 10, 0, 0)),
   Interval(At(1, 10, 0, 0), At(1, 10, 30, 0))}

CandidateSlots ==
  {Interval(At(1, 9, 0, 0), At(1, 9, 30, 0)),
   Interval(At(1, 9, 30, 0), At(1, 10, 0, 0)),
   Interval(At(1, 9, 0, 0), At(1, 9, 45, 0))}

BookedLists == UNION {[1..n -> IntervalPool] : n \in 0..MaxBooked}

InitOverlap ==
  /\ InitBooking
  /\ InitSlotsIdle
  /\ avIn \in [slot : CandidateSlots, bookedSlots : BookedLists]
  /\ avOut = None
  /\ genIn = None
  /\ genOut = None
  /\ loop = None
  /\ InitAdminIdle

ApplyIsSlotAvailable ==
  /\ avOut = None
  /\ avOut' = [available |->
                 isSlotAvailable(avIn.slot.start, avIn.slot.end, avIn.bookedSlots)]
  /\ UNCHANGED <<bookingVars, slotVars, adminVars, avIn, genIn, genOut, loop>>

SpecOverlap == InitOverlap /\ [][ApplyIsSlotAvailable]_vars

Windows ==
  {<< <<9, 0>>, <<10, 0>> >>, << <<9, 0>>, <<18, 0>> >>,
   << <<9, 15>>, <<9, 45>> >>, << <<22, 0>>, <<23, 59>> >>}

GenDates == {At(1, 0, 0, 0), At(1, 12, 0, 30), At(6, 23, 59, 59)}
GenDurations == {15, 30, 45, 60, 480}
GenBuffers == {0, 5, 15, 120}

InitGen ==
  /\ InitBooking
  /\ InitSlotsIdle
  /\ avIn = None
  /\ avOut = None
  /\ genIn \in {[date |-> d,
                 config |-> [startTime |-> w[1], endTime |-> w[2],
                             slotDuration |-> sd, bufferTime |-> bt]] :
                  d \in GenDates, w \in Windows, sd \in GenDurations,
                  bt \in GenBuffers}
  /\ genOut = None
  /\ loop = None
  /\ InitAdminIdle

ApplyGenerateTimeSlots ==
  /\ genOut = None
  /\ genOut' = [slots |-> generateTimeSlots(genIn.date, genIn.config)]
  /\ UNCHANGED <<bookingVars, slotVars, adminVars, avIn, avOut, genIn, loop>>

SpecGen == InitGen /\ [][ApplyGenerateTimeSlots]_vars

----------------------------------------------------------------------------
(* The booking page: a visitor books, the page and getAvailableSlotsForDay *)
(* load the slots again.                                                   *)

\* startDate of the calls: new Date() as the page passes it, and the start
\* of Monday.  30 and 0 are the page's slotDuration and bufferTime.
NextBookSlots ==
  \/ \E input \in FormInputs : CreateBookingStart(1, input) /\ OthersIdle
  \/ \E fails \in BOOLEAN : CheckExisting(1, fails) /\ OthersIdle
  \/ \E fails \in BOOLEAN : InsertEvent(1, fails) /\ OthersIdle
  \/ \E fails \in BOOLEAN : InsertBooking(1, fails) /\ OthersIdle
  \/ \E fails \in BOOLEAN : Rollback(1, fails) /\ OthersIdle
  \/ Return(1) /\ OthersIdle
  \/ Tick /\ OthersIdle
  \/ \E startDate \in {now, At(1, 0, 0, 0)}, days \in 1..MaxDays,
        eventsError \in BOOLEAN :
       GetAvailableSlots(startDate, days, 30, 0, FALSE, eventsError, FALSE, <<>>)

SpecBookSlots == Init /\ [][NextBookSlots]_vars

----------------------------------------------------------------------------
(* generateTimeSlots one loop iteration at a time.                         *)

LoopStart == [pc |-> "start", currentSlot |-> 0, dayEnd |-> 0, slots |-> <<>>,
              iterations |-> 0]

InitLoop ==
  /\ InitBooking
  /\ InitSlotsIdle
  /\ InitAdminIdle
  /\ avIn = None
  /\ avOut = None
  /\ genIn \in {[date |-> d,
                 config |-> [startTime |-> w[1], endTime |-> w[2],
                             slotDuration |-> sd, bufferTime |-> bt]] :
                  d \in GenDates, w \in Windows, sd \in GenDurations,
                  bt \in GenBuffers}
  /\ genOut = None
  /\ loop = LoopStart

LoopIdle == UNCHANGED <<bookingVars, slotVars, adminVars, avIn, avOut, genIn>>

\* The statements before the while loop.
LoopEnter ==
  /\ loop.pc = "start"
  /\ LET startHour == genIn.config.startTime[1]
         startMin == genIn.config.startTime[2]
         endHour == genIn.config.endTime[1]
         endMin == genIn.config.endTime[2]
     IN  loop' = [loop EXCEPT
                    !.pc = "while",
                    !.currentSlot = setMinutes(setHours(genIn.date, startHour),
                                               startMin),
                    !.dayEnd = setMinutes(setHours(genIn.date, endHour), endMin),
                    !.slots = <<>>]
  /\ UNCHANGED genOut
  /\ LoopIdle

\* One pass through the body of the while loop.
LoopIteration ==
  /\ loop.pc = "while"
  /\ isBefore(loop.currentSlot, loop.dayEnd)
  /\ loop.iterations < MaxIterations
  /\ LET slotEnd == addMinutes(loop.currentSlot, genIn.config.slotDuration)
     IN  loop' = [loop EXCEPT
                    !.slots = IF isBefore(slotEnd, loop.dayEnd)
                                   \/ slotEnd = loop.dayEnd
                                THEN Append(@, [start |-> loop.currentSlot,
                                                end |-> slotEnd])
                                ELSE @,
                    !.currentSlot = addMinutes(slotEnd, genIn.config.bufferTime),
                    !.iterations = @ + 1]
  /\ UNCHANGED genOut
  /\ LoopIdle

\* The loop condition is false: return slots.
LoopReturn ==
  /\ loop.pc = "while"
  /\ ~isBefore(loop.currentSlot, loop.dayEnd)
  /\ loop' = [loop EXCEPT !.pc = "done"]
  /\ genOut' = [slots |-> loop.slots]
  /\ LoopIdle

NextLoop ==
  \/ LoopEnter
  \/ LoopIteration
  \/ LoopReturn

\* A call that has started keeps executing.
SpecLoop == InitLoop /\ [][NextLoop]_vars /\ WF_vars(NextLoop)

----------------------------------------------------------------------------
(* Calendar settings and weekly schedule: the owner's admin actions.       *)
(* The store client answers a query with {data, error}; it does not throw. *)

DEFAULT_SETTINGS_Day ==
  [slot_duration |-> 30, buffer_time |-> 0, advance_booking_days |-> 60,
   min_notice_hours |-> 24]

DEFAULT_SETTINGS ==
  [slot_duration |-> 30, buffer_time |-> 0, advance_booking_days |-> 60,
   min_notice_hours |-> 12]

\* A DaySchedule entry.
Day(d, from, to, active) ==
  [day_of_week |-> d, start_time |-> from, end_time |-> to, is_active |-> active]

DEFAULT_SCHEDULE ==
  [i \in 1..7 |-> Day(i - 1, <<9, 0>>, <<18, 0>>, (i - 1) \in 1..5)]

\* CHECK constraints of calendar_settings.
valid_settings(v) ==
  /\ v.slot_duration >= 15 /\ v.slot_duration <= 480
  /\ v.buffer_time >= 0 /\ v.buffer_time <= 120
  /\ v.advance_booking_days >= 1 /\ v.advance_booking_days <= 365
  /\ v.min_notice_hours >= 0 /\ v.min_notice_hours <= 168

\* CHECK constraints of availability_rules.
valid_rule(r) ==
  /\ r.day_of_week \in 0..6
  /\ r.end_time[1] * 60 + r.end_time[2] > r.start_time[1] * 60 + r.start_time[2]

\* What an action returned, for which user it ran, and whether the store
\* answered its call with an error.
Returned(action, user, storeError, success, error, data) ==
  [action |-> action, user |-> user, storeError |-> storeError,
   success |-> success, error |-> error, data |-> data]

\* Every caller goes on, signed in or not.
requireAuthOpen(user) == TRUE

\* requireAuth: whether the caller goes on; otherwise redirect throws and the
\* catch block of the action answers.
requireAuth(user) == user # NoUser

SignIn ==
  /\ session = NoUser
  /\ session' = Owner
  /\ UNCHANGED <<settings, adminOut, saving, rules>>

SignOut ==
  /\ session # NoUser
  /\ session' = NoUser
  /\ UNCHANGED <<settings, adminOut, saving, rules>>

\* fails: the store answers the read with an error.
GetCalendarSettings(fails) ==
  /\ session = NoUser => ~fails          \* nothing is read then
  /\ adminOut' =
       IF session = NoUser
         THEN Returned("getCalendarSettings", NoUser, FALSE, FALSE, "No autenticado", None)
         ELSE LET res == maybeSingle({row \in settings : row.user_id = session}, fails)
                  defaults == [id |-> 0, user_id |-> session] @@ DEFAULT_SETTINGS
              IN  Returned("getCalendarSettings", session, fails, TRUE, "",
                           IF res.error \/ res.data = None THEN defaults
                           ELSE res.data)
  /\ UNCHANGED <<session, settings, saving, rules>>

\* requireAuth redirects a caller without a session; redirect throws and the
\* catch block of the action answers.  fails: the store answers the upsert
\* with an error.
SaveCalendarSettings(input, fails) ==
  /\ session = NoUser => ~fails
  /\ IF ~requireAuth(session)
       THEN /\ adminOut' = Returned("saveCalendarSettings", NoUser, FALSE, FALSE,
                                    "Error inesperado", None)
            /\ UNCHANGED settings
       ELSE IF fails \/ ~valid_settings(input)
         THEN /\ adminOut' = Returned("saveCalendarSettings", session, TRUE, FALSE,
                                      "Error al guardar la configuracion", None)
              /\ UNCHANGED settings
         ELSE /\ adminOut' = Returned("saveCalendarSettings", session, FALSE, TRUE, "", None)
              /\ settings' = {row \in settings : row.user_id # session}
                               \cup {[id |-> 1, user_id |-> session] @@ input}
  /\ UNCHANGED <<session, saving, rules>>

RECURSIVE OrderedFrom(_, _)
\* The rows of S for the weekdays d..6 in ascending weekday order.  Rows of
\* equal weekday come in any order: any of them may be first; the order of
\* those behind it reaches no result.
OrderedFrom(S, d) ==
  IF d > 6 THEN {<<>>}
  ELSE LET sameDay == {r \in S : r.day_of_week = d}
       IN  IF sameDay = {} THEN OrderedFrom(S, d + 1)
           ELSE {<<first>> \o AnyOrder(sameDay \ {first}) \o rest :
                   first \in sameDay, rest \in OrderedFrom(S, d + 1)}

\* .order('day_of_week')
OrderedByDay(S) == OrderedFrom(S, 0)

\* The rows as they are, the weekdays without a row left out.
PersistedOnly(data) ==
  [i \in 1..Len(data) |-> Day(data[i].day_of_week, data[i].start_time,
                              data[i].end_time, data[i].is_active)]

\* DEFAULT_SCHEDULE.map(...): the first row found for a weekday, or its default.
MergeWithDefaults(data) ==
  [i \in 1..Len(DEFAULT_SCHEDULE) |->
     LET defaultDay == DEFAULT_SCHEDULE[i]
         found == Matching(data, defaultDay.day_of_week)
     IN  IF found # {}
           THEN LET existingRule == data[CHOOSE k \in found : \A j \in found : k <= j]
                IN  Day(existingRule.day_of_week, existingRule.start_time,
                        existingRule.end_time, existingRule.is_active)
           ELSE defaultDay]

\* fails: the store answers the read with an error; data: the rows returned.
GetSchedule(fails, data) ==
  /\ session = NoUser => ~fails
  /\ data \in OrderedByDay({r \in RulesVisibleTo(session) : r.user_id = session})
  /\ adminOut' =
       IF session = NoUser
         THEN Returned("getSchedule", NoUser, FALSE, FALSE, "No autenticado", None)
         ELSE IF fails \/ Len(data) = 0
           THEN Returned("getSchedule", session, fails, TRUE, "", DEFAULT_SCHEDULE)
           ELSE Returned("getSchedule", session, fails, TRUE, "", MergeWithDefaults(data))
  /\ UNCHANGED <<session, settings, saving, rules>>

\* saveSchedule up to its delete, whose result the code does not look at:
\* deleteError keeps what the store answered, and before the owner's rows as
\* the call found them.  Calls of several requests run side by side, each
\* between its delete and its insert.
SaveScheduleDelete(schedule, fails) ==
  /\ session = NoUser => ~fails
  /\ IF ~requireAuth(session)
       THEN /\ adminOut' = Returned("saveSchedule", NoUser, FALSE, FALSE,
                                    "Error inesperado", None)
            /\ UNCHANGED <<rules, saving>>
       ELSE /\ rules' = IF fails THEN rules
                        ELSE {r \in rules : r.user_id # session}
            /\ saving' = saving \cup
                 {[user |-> session, schedule |-> schedule, deleteError |-> fails,
                   before |-> {r \in rules : r.user_id = session}]}
            /\ adminOut' = None
  /\ UNCHANGED <<session, settings>>

\* schedule.map(...): the rows of a submitted schedule.
RulesToInsert(call) ==
  {[Rule(call.schedule[i].day_of_week, call.schedule[i].start_time,
         call.schedule[i].end_time, call.schedule[i].is_active)
      EXCEPT !.user_id = call.user] : i \in 1..Len(call.schedule)}

\* saveSchedule from its insert on: one statement, all rows or none.
SaveScheduleInsert(call, fails) ==
  /\ call \in saving
  /\ LET rulesToInsert == RulesToInsert(call)
     IN  IF fails \/ \E r \in rulesToInsert : ~valid_rule(r)
           THEN /\ adminOut' = Returned("saveSchedule", call.user, TRUE, FALSE,
                                        "Error al guardar el horario", None)
                /\ UNCHANGED rules
           ELSE /\ adminOut' = Returned("saveSchedule", call.user, call.deleteError,
                                        TRUE, "", None)
                /\ rules' = rules \cup rulesToInsert
  /\ saving' = saving \ {call}
  /\ UNCHANGED <<session, settings>>

SettingsInputs ==
  {DEFAULT_SETTINGS,
   [slot_duration |-> 45, buffer_time |-> 15, advance_booking_days |-> 30,
    min_notice_hours |-> 48],
   [slot_duration |-> 10, buffer_time |-> 0, advance_booking_days |-> 60,
    min_notice_hours |-> 12]}

\* What the schedule editor submits: seven entries, one per weekday.
ScheduleInputs ==
  {DEFAULT_SCHEDULE,
   [DEFAULT_SCHEDULE EXCEPT ![2] = Day(1, <<10, 0>>, <<12, 0>>, TRUE),
                            ![3] = Day(2, <<9, 0>>, <<18, 0>>, FALSE)],
   [DEFAULT_SCHEDULE EXCEPT ![2] = Day(1, <<12, 0>>, <<10, 0>>, TRUE)]}

InitAdmin ==
  /\ InitBooking
  /\ rules \in RuleSets
  /\ slotsReq = None
  /\ slotsOut = <<>>
  /\ InitHelpersIdle
  /\ InitAdminIdle

AdminIdle == UNCHANGED <<bookingVars, slotsReq, slotsOut, helperVars>>

NextAdmin ==
  \/ SignIn /\ AdminIdle
  \/ SignOut /\ AdminIdle
  \/ \E fails \in BOOLEAN : GetCalendarSettings(fails) /\ AdminIdle
  \/ \E input \in SettingsInputs, fails \in BOOLEAN :
       SaveCalendarSettings(input, fails) /\ AdminIdle
  \/ \E fails \in BOOLEAN,
        data \in OrderedByDay({r \in RulesVisibleTo(session) : r.user_id = session}) :
       GetSchedule(fails, data) /\ AdminIdle
  \/ \E schedule \in ScheduleInputs, fails \in BOOLEAN :
       saving = {} /\ SaveScheduleDelete(schedule, fails) /\ AdminIdle
  \/ \E call \in saving, fails \in BOOLEAN :
       SaveScheduleInsert(call, fails) /\ AdminIdle

SpecAdmin == InitAdmin /\ [][NextAdmin]_vars

\* The schedule editor open in several tabs: saveSchedule calls of the owner
\* run side by side, their store calls in any order.
InitSchedule ==
  /\ InitBooking
  /\ rules \in RuleSets
  /\ slotsReq = None
  /\ slotsOut = <<>>
  /\ InitHelpersIdle
  /\ session = Owner
  /\ settings = {}
  /\ adminOut = None
  /\ saving = {}

NextSchedule ==
  \/ \E schedule \in ScheduleInputs, fails \in BOOLEAN :
       Cardinality(saving) < MaxSaving
         /\ SaveScheduleDelete(schedule, fails) /\ AdminIdle
  \/ \E call \in saving, fails \in BOOLEAN :
       SaveScheduleInsert(call, fails) /\ AdminIdle

SpecSchedule == InitSchedule /\ [][NextSchedule]_vars

----------------------------------------------------------------------------
(* createEvent, updateEvent, deleteEvent and cancelBooking.                *)

\* p_event_id DEFAULT NULL: no stored event has this id.
NullId == 0

\* The SELECT policies of events: public rows for everyone, their own rows
\* for a signed-in user.
EventsVisibleTo(user) ==
  {ev \in events : ev.is_public \/ (user # NoUser /\ ev.created_by = user)}

\* (s1, e1) OVERLAPS (s2, e2) of PostgreSQL: each pair is put in order and
\* taken half-open; equal starts always overlap.
OVERLAPS(s1, e1, s2, e2) ==
  LET ts1 == IF s1 <= e1 THEN s1 ELSE e1
      te1 == IF s1 <= e1 THEN e1 ELSE s1
      ts2 == IF s2 <= e2 THEN s2 ELSE e2
      te2 == IF s2 <= e2 THEN e2 ELSE s2
  IN  IF ts1 > ts2 THEN ts1 < te2
      ELSE IF ts1 < ts2 THEN ts2 < te1
      ELSE TRUE

\* Endpoints included: intervals that only touch count as overlapping.
OVERLAPS_Closed(s1, e1, s2, e2) == s1 <= e2 /\ s2 <= e1

\* check_event_overlap: TRUE when no other event overlaps the given times.
\* It runs with the rights of its caller, so it sees the rows evs.
check_event_overlap(evs, p_start_time, p_end_time, p_event_id) ==
  LET overlap_count ==
        Cardinality({ev \in evs :
                       /\ (ev.id # p_event_id \/ p_event_id = NullId)
                       /\ OVERLAPS(ev.start_time, ev.end_time,
                                   p_start_time, p_end_time)})
  IN  overlap_count = 0

\* What supabase.rpc hands back as `data`: the function's answer, or null
\* when the call failed.
RpcData(rpcFails, answer) ==
  IF rpcFails THEN "null" ELSE IF answer THEN "true" ELSE "false"

createEventSchema(input) ==
  LET base ==
           IssueIf(input.title < 1, "El titulo es requerido")
        \o IssueIf(input.title > 255, "El titulo debe tener maximo 255 caracteres")
        \o IssueIf(~input.start_time.ok, "Fecha de inicio invalida")
        \o IssueIf(~input.end_time.ok, "Fecha de fin invalida")
  IN  IF base # <<>> THEN base
      ELSE IssueIf(~(input.end_time.t > input.start_time.t),
                   "La fecha de fin debe ser posterior a la fecha de inicio")

\* A field the caller left out is None.
updateEventSchema(input) ==
  LET base ==
           IssueIf(input.start_time # None /\ ~input.start_time.ok,
                   "Fecha de inicio invalida")
        \o IssueIf(input.end_time # None /\ ~input.end_time.ok,
                   "Fecha de fin invalida")
  IN  IF base # <<>> THEN base
      ELSE IssueIf(/\ input.start_time # None /\ input.end_time # None
                   /\ ~(input.end_time.t > input.start_time.t),
                   "La fecha de fin debe ser posterior a la fecha de inicio")

OverlapMsg == "El horario se solapa con otro evento existente"

\* rpcFails: the overlap check fails; fails: the store answers the insert
\* with an error.
CreateEvent(input, rpcFails, fails) ==
  /\ ~requireAuth(session) => ~rpcFails /\ ~fails
  /\ LET issues == createEventSchema(input)
         hasOverlap ==
           RpcData(rpcFails,
                   check_event_overlap(EventsVisibleTo(session), input.start_time.t,
                                       input.end_time.t, NullId))
         row == [id |-> nextId, start_time |-> input.start_time.t,
                 end_time |-> input.end_time.t, is_public |-> input.is_public,
                 event_type |-> "meeting", created_by |-> session]
         Answer(storeError, error) ==
           /\ adminOut' = Returned("createEvent", session, storeError, FALSE, error, None)
           /\ UNCHANGED <<events, nextId>>
     IN  IF ~requireAuth(session)
           THEN Answer(FALSE, "Error inesperado al crear el evento")
         ELSE IF issues # <<>> THEN Answer(FALSE, issues[1])
         ELSE IF hasOverlap = "false" THEN Answer(FALSE, OverlapMsg)
         ELSE IF fails \/ ~valid_time_range(row) \/ ~valid_duration(row)
           THEN Answer(TRUE, "Error al crear el evento")
         ELSE /\ events' = events \cup {row}
              /\ nextId' = nextId + 1
              /\ adminOut' = Returned("createEvent", session, FALSE, TRUE, "",
                                      [id |-> row.id])
  /\ UNCHANGED <<bookings, session, settings, saving, rules>>

\* updateEvent, deleteEvent and cancelBooking answer with no data; id keeps
\* the id the call was made with.

\* The row after .update(updateData): the fields given replace the stored ones.
Updated(ev, input) ==
  [ev EXCEPT !.start_time = IF input.start_time # None THEN input.start_time.t ELSE @,
             !.end_time = IF input.end_time # None THEN input.end_time.t ELSE @]

\* The overlap check runs only when both times are given.  The update reaches
\* the rows of that id the caller created; an update that reaches no row is
\* no error.
UpdateEvent(input, rpcFails, fails) ==
  /\ ~requireAuth(session) => ~rpcFails /\ ~fails
  /\ LET issues == updateEventSchema(input)
         bothTimes == input.start_time # None /\ input.end_time # None
         hasOverlap ==
           IF bothTimes
             THEN RpcData(rpcFails,
                          check_event_overlap(EventsVisibleTo(session),
                                              input.start_time.t, input.end_time.t,
                                              input.id))
             ELSE "null"
         reached == {ev \in events : ev.id = input.id /\ ev.created_by = session}
         rows == {Updated(ev, input) : ev \in reached}
         Answer(storeError, error) ==
           /\ adminOut' = Returned("updateEvent", session, storeError, FALSE, error, None)
                         @@ [id |-> input.id]
           /\ UNCHANGED events
     IN  IF ~requireAuth(session)
           THEN Answer(FALSE, "Error inesperado al actualizar el evento")
         ELSE IF issues # <<>> THEN Answer(FALSE, issues[1])
         ELSE IF hasOverlap = "false" THEN Answer(FALSE, OverlapMsg)
         ELSE IF fails \/ \E row \in rows : ~valid_time_range(row) \/ ~valid_duration(row)
           THEN Answer(TRUE, "Error al actualizar el evento")
         ELSE /\ events' = (events \ reached) \cup rows
              /\ adminOut' = Returned("updateEvent", session, FALSE, TRUE, "", None)
                               @@ [id |-> input.id]
  /\ (input.start_time = None \/ input.end_time = None) => ~rpcFails
  /\ UNCHANGED <<bookings, nextId, session, settings, saving, rules>>

\* The delete reaches the rows of that id the caller created; a delete that
\* reaches no row is no error.  bookings.event_id is ON DELETE CASCADE.
DeleteEvent(id, fails) ==
  /\ ~requireAuth(session) => ~fails
  /\ LET reached == {ev \in events : ev.id = id /\ ev.created_by = session}
         Answer(storeError, error) ==
           /\ adminOut' = Returned("deleteEvent", session, storeError, FALSE, error, None)
                         @@ [id |-> id]
           /\ UNCHANGED <<events, bookings>>
     IN  IF ~requireAuth(session)
           THEN Answer(FALSE, "Error inesperado al eliminar el evento")
         ELSE IF fails THEN Answer(TRUE, "Error al eliminar el evento")
         ELSE /\ events' = events \ reached
              /\ bookings' = {b \in bookings : \A ev \in reached : b.event_id # ev.id}
              /\ adminOut' = Returned("deleteEvent", session, FALSE, TRUE, "", None)
                               @@ [id |-> id]
  /\ UNCHANGED <<nextId, session, settings, saving, rules>>

\* The UPDATE policy of bookings: the bookings of events the caller created.
BookingsUpdatableBy(user) ==
  {b \in bookings :
     /\ user # NoUser
     /\ \E ev \in events : ev.id = b.event_id /\ ev.created_by = user}

\* cancelBooking asks for no session; the store applies the policy of
\* whoever calls.  An update that reaches no row is no error.
CancelBooking(id, fails) ==
  /\ LET reached == {b \in BookingsUpdatableBy(session) : b.id = id}
     IN  IF fails
           THEN /\ adminOut' = Returned("cancelBooking", session, TRUE, FALSE,
                                        "Error al cancelar la reserva", None)
                                 @@ [id |-> id]
                /\ UNCHANGED bookings
           ELSE /\ bookings' = (bookings \ reached)
                                 \cup {[b EXCEPT !.status = "cancelled"] : b \in reached}
                /\ adminOut' = Returned("cancelBooking", session, FALSE, TRUE, "", None)
                                 @@ [id |-> id]
  /\ UNCHANGED <<events, nextId, session, settings, saving, rules>>

EventInput(title, from, to, public) ==
  [title |-> title, start_time |-> Datetime(from), end_time |-> Datetime(to),
   is_public |-> public]

\* What the dashboard's event form submits; a title left empty; an end that
\* is not after the start.
EventInputs ==
  {EventInput(1, T0900, T0930, TRUE), EventInput(1, T0930, T1000, TRUE),
   EventInput(1, T0900, T1000, FALSE), EventInput(0, T0900, T0930, TRUE),
   EventInput(1, T0930, T0930, TRUE)}

\* Changes of one time or of both, for the ids a small store hands out.
EventUpdates ==
  [id : 1..MaxEvents,
   start_time : {None, Datetime(T0900), Datetime(T0930)},
   end_time : {None, Datetime(T1000)}]

EventsIdle == UNCHANGED <<now, calls, started, slotVars, helperVars>>

InitEvents ==
  /\ InitBooking
  /\ InitSlotsIdle
  /\ InitHelpersIdle
  /\ InitAdminIdle

\* The owner at the dashboard and one visitor at the booking form, one call
\* at a time.
NextEvents ==
  \/ SignIn /\ AdminIdle
  \/ SignOut /\ AdminIdle
  \/ \E input \in EventInputs, rpcFails \in BOOLEAN, fails \in BOOLEAN :
       calls[1].pc = "idle" /\ nextId <= MaxEvents
         /\ CreateEvent(input, rpcFails, fails) /\ EventsIdle
  \/ \E input \in EventUpdates, rpcFails \in BOOLEAN, fails \in BOOLEAN :
       calls[1].pc = "idle" /\ UpdateEvent(input, rpcFails, fails) /\ EventsIdle
  \/ \E id \in 1..MaxEvents, fails \in BOOLEAN :
       calls[1].pc = "idle" /\ DeleteEvent(id, fails) /\ EventsIdle
  \/ \E id \in 1..(MaxEvents + 1), fails \in BOOLEAN :
       calls[1].pc = "idle" /\ CancelBooking(id, fails) /\ EventsIdle
  \/ \E input \in FormInputs :
       nextId <= MaxEvents /\ CreateBookingStart(1, input) /\ OthersIdle
  \/ \E fails \in BOOLEAN : CheckExisting(1, fails) /\ OthersIdle
  \/ \E fails \in BOOLEAN : InsertEvent(1, fails) /\ OthersIdle
  \/ \E fails \in BOOLEAN : InsertBooking(1, fails) /\ OthersIdle
  \/ \E fails \in BOOLEAN : Rollback(1, fails) /\ OthersIdle
  \/ Return(1) /\ OthersIdle

SpecEvents == InitEvents /\ [][NextEvents]_vars

\* The five actions of the dashboard that write, called with and without a
\* session, each with one input the store accepts.
NextWrites ==
  \/ SignIn /\ AdminIdle
  \/ SignOut /\ AdminIdle
  \/ \E rpcFails \in BOOLEAN, fails \in BOOLEAN :
       nextId <= MaxEvents
         /\ CreateEvent(EventInput(1, T0900, T0930, TRUE), rpcFails, fails)
         /\ EventsIdle
  \/ \E id \in 1..MaxEvents, rpcFails \in BOOLEAN, fails \in BOOLEAN :
       UpdateEvent([id |-> id, start_time |-> None, end_time |-> Datetime(T1000)],
                   rpcFails, fails)
         /\ EventsIdle
  \/ \E id \in 1..MaxEvents, fails \in BOOLEAN :
       DeleteEvent(id, fails) /\ EventsIdle
  \/ \E fails \in BOOLEAN :
       SaveCalendarSettings(DEFAULT_SETTINGS, fails) /\ AdminIdle
  \/ \E fails \in BOOLEAN :
       Cardinality(saving) < MaxSaving
         /\ SaveScheduleDelete(DEFAULT_SCHEDULE, fails) /\ AdminIdle
  \/ \E call \in saving, fails \in BOOLEAN :
       SaveScheduleInsert(call, fails) /\ AdminIdle

SpecWrites == InitEvents /\ [][NextWrites]_vars

----------------------------------------------------------------------------
(* The appointment page.                                                   *)

\* days: 60
PageDays == 60

\* loadSlots: the page asks for the slots from this moment on, with the slot
\* length and buffer written in the page.
LoadSlots(thrown, eventsError, rulesError, rulesData) ==
  GetAvailableSlots(now, PageDays, 30, 0, thrown, eventsError, rulesError, rulesData)

\* The window of DateTimePicker, from the moment t it was mounted.
minDate(t) == t + 12 * 60 * 60
maxDate(t) == t + 7 * 24 * 60 * 60

\* selectedDateSlots: the indexes of the slots the picker lists for the
\* selected day.
selectedDateSlots(slots, t, selectedDate) ==
  {i \in 1..Len(slots) :
     /\ slots[i].available
     /\ ~(slots[i].start < minDate(t) \/ slots[i].start > maxDate(t))
     /\ toDateString(slots[i].start) = toDateString(selectedDate)}

\* The indexes of the slots a visitor can pick on some day of the calendar.
Offered(slots, t) ==
  UNION {selectedDateSlots(slots, t, addDays(t, k)) : k \in 0..(PageDays - 1)}

\* The owner saving settings while a visitor uses the appointment page: the
\* page loads its slots when it opens (useEffect) and after a booking that
\* succeeded (handleBookingSuccess), and the form submits to createBooking.
NextPage ==
  \/ SignIn /\ AdminIdle
  \/ SignOut /\ AdminIdle
  \/ \E input \in SettingsInputs, fails \in BOOLEAN :
       SaveCalendarSettings(input, fails) /\ AdminIdle
  \/ \E eventsError \in BOOLEAN :
       /\ slotsReq = None \/ (calls[1].pc = "done" /\ calls[1].result = Success)
       /\ LoadSlots(FALSE, eventsError, FALSE, <<>>)
  \/ \E input \in {f \in FormInputs : f.slot_start.t = T0930} :
       CreateBookingStart(1, input) /\ OthersIdle
  \/ \E fails \in BOOLEAN : CheckExisting(1, fails) /\ OthersIdle
  \/ \E fails \in BOOLEAN : InsertEvent(1, fails) /\ OthersIdle
  \/ \E fails \in BOOLEAN : InsertBooking(1, fails) /\ OthersIdle
  \/ \E fails \in BOOLEAN : Rollback(1, fails) /\ OthersIdle
  \/ Return(1) /\ OthersIdle

SpecPage == Init /\ [][NextPage]_vars

----------------------------------------------------------------------------
(* Claims about createBooking.                                             *)

InFlight == {"lookup", "insertEvent", "insertBooking", "rollback"}

SlotOf(c) == <<calls[c].input.slot_start.t, calls[c].input.slot_end.t>>

\* The requester fields and both datetimes pass the schema.
ValidFields(input) ==
  /\ input.slot_start.ok /\ input.slot_end.ok
  /\ input.name >= 2 /\ input.name <= 255
  /\ input.email.format /\ input.email.len <= 255
  /\ input.phone # "nomatch"
  /\ input.notes <= 1000

\* The message of the first field, in schema order, that the schema rejects.
FirstFailingMessage(input) ==
  IF ~input.slot_start.ok THEN "Fecha de inicio invalida"
  ELSE IF ~input.slot_end.ok THEN "Fecha de fin invalida"
  ELSE IF input.name < 2 THEN "El nombre debe tener al menos 2 caracteres"
  ELSE IF input.name > 255 THEN "El nombre debe tener maximo 255 caracteres"
  ELSE IF ~input.email.format THEN "Email invalido"
  ELSE IF input.email.len > 255 THEN "El email debe tener maximo 255 caracteres"
  ELSE IF input.phone = "nomatch" THEN "Telefono invalido"
  ELSE "Las notas deben tener maximo 1000 caracteres"

\* No other createBooking call is between its first and its last store call.
Alone(c) == \A d \in Callers \ {c} : calls[d].pc \notin InFlight

\* C1: of two createBooking calls for the identical (slot_start, slot_end)
\* whose store calls interleave, at most one returns success, and the store
\* never holds two events with that same (start, end).
C1_ExactlyOneBooking ==
  /\ \A c, d \in Callers :
       (c # d /\ calls[c].pc = "done" /\ calls[d].pc = "done"
        /\ ValidFields(calls[c].input) /\ ValidFields(calls[d].input)
        /\ SlotOf(c) = SlotOf(d))
       => ~(calls[c].result.success /\ calls[d].result.success)
  /\ \A e1, e2 \in events :
       (e1.start_time = e2.start_time /\ e1.end_time = e2.end_time) => e1 = e2

\* C2: a createBooking call that has returned failure after its event insert
\* succeeded has left no event of its own behind.
C2_NoOrphanEvent ==
  \A c \in Callers :
    (calls[c].pc = "done" /\ ~calls[c].result.success /\ calls[c].eventId # 0)
    => ~\E ev \in events : ev.id = calls[c].eventId

\* C3 as stated: every call whose slot_start is earlier than the acceptance
\* time returns the past-slot rejection and leaves both tables as they were.
C3_PastSlotRejected ==
  [][\A c \in Callers :
       (calls[c].pc = "idle" /\ calls'[c].pc # "idle"
        /\ calls'[c].input.slot_start.ok
        /\ calls'[c].input.slot_start.t < now)
       => /\ calls'[c].pc = "done"
          /\ calls'[c].result = Failure(PastMsg)
          /\ events' = events /\ bookings' = bookings]_vars

\* C3 amended: every call whose fields pass validation and whose slot_start is
\* earlier than the acceptance time returns the past-slot rejection, issues no
\* store call and leaves both tables as they were.
C3_ValidPastSlotRejected ==
  [][\A c \in Callers :
       (calls[c].pc = "idle" /\ calls'[c].pc # "idle"
        /\ ValidFields(calls'[c].input)
        /\ calls'[c].input.slot_start.t < now)
       => /\ calls'[c].pc = "done"
          /\ calls'[c].result = Failure(PastMsg)
          /\ calls'[c].ops = <<>>
          /\ events' = events /\ bookings' = bookings]_vars

C3_Witness ==
  \E c \in Callers :
    /\ calls[c].pc = "done"
    /\ ValidFields(calls[c].input)
    /\ calls[c].input.slot_start.t < calls[c].acceptedAt
    /\ calls[c].result = Failure(PastMsg)

\* C4: a call gets past the past-slot check only if slot_start is strictly
\* later than the acceptance time; a slot_start equal to the acceptance instant
\* is rejected as a past slot.
C4_StrictlyFuture ==
  \A c \in Callers :
    (calls[c].pc # "idle" /\ ValidFields(calls[c].input))
    => /\ (calls[c].pc \in InFlight \/ calls[c].result # Failure(PastMsg))
            => calls[c].input.slot_start.t > calls[c].acceptedAt
       /\ calls[c].input.slot_start.t = calls[c].acceptedAt
            => calls[c].pc = "done" /\ calls[c].result = Failure(PastMsg)

\* C5 as stated: a call run alone, with valid fields and a future slot_start,
\* whose (start, end) the store already holds in an event, is rejected as
\* already booked and writes nothing.
C5_ExistingRejectedAsBooked ==
  [][\A c \in Callers :
       (calls[c].pc = "lookup" /\ calls'[c].pc # "lookup" /\ Alone(c)
        /\ ValidFields(calls[c].input)
        /\ calls[c].input.slot_start.t >= calls[c].acceptedAt
        /\ \E ev \in events : <<ev.start_time, ev.end_time>> = SlotOf(c))
       => /\ calls'[c].pc = "done"
          /\ calls'[c].result = Failure(BookedMsg)
          /\ events' = events /\ bookings' = bookings]_vars

\* C5 amended: such a call is rejected and writes nothing; the rejection is
\* "already booked" or, when the lookup query fails or finds more than one
\* event with that (start, end), the availability-check error.
C5_ExistingRejected ==
  [][\A c \in Callers :
       (calls[c].pc = "lookup" /\ calls'[c].pc # "lookup" /\ Alone(c)
        /\ ValidFields(calls[c].input)
        /\ calls[c].input.slot_start.t >= calls[c].acceptedAt
        /\ \E ev \in events : <<ev.start_time, ev.end_time>> = SlotOf(c))
       => /\ calls'[c].pc = "done"
          /\ calls'[c].result \in {Failure(BookedMsg), Failure(CheckMsg)}
          /\ Cardinality({ev \in events :
                            <<ev.start_time, ev.end_time>> = SlotOf(c)}) > 1
               => calls'[c].result = Failure(CheckMsg)
          /\ calls'[c].ops = <<"select events">>
          /\ events' = events /\ bookings' = bookings]_vars

C5_Witness ==
  \E c \in Callers :
    /\ calls[c].pc = "done" /\ Alone(c)
    /\ calls[c].result = Failure(BookedMsg)
    /\ \E ev \in events : <<ev.start_time, ev.end_time>> = SlotOf(c)

\* C6: the checks run in the order validation, past slot, existing-event
\* lookup, and the call returns at the first failure: an invalid field is
\* answered with the first failing field's message before any store call, a
\* past slot before the lookup is issued, and the lookup precedes every write.
C6_CheckOrder ==
  \A c \in Callers :
    calls[c].pc # "idle" =>
      /\ ~ValidFields(calls[c].input)
           => /\ calls[c].pc = "done"
              /\ calls[c].result = Failure(FirstFailingMessage(calls[c].input))
              /\ calls[c].ops = <<>>
      /\ (ValidFields(calls[c].input)
          /\ calls[c].input.slot_start.t < calls[c].acceptedAt)
           => /\ calls[c].pc = "done"
              /\ calls[c].result = Failure(PastMsg)
              /\ calls[c].ops = <<>>
      /\ calls[c].ops # <<>> => calls[c].ops[1] = "select events"

C6_Witness ==
  \E c \in Callers :
    /\ calls[c].pc = "done"
    /\ calls[c].input.name < 2 /\ ~calls[c].input.email.format
    /\ calls[c].input.slot_start.ok
    /\ calls[c].input.slot_start.t < now
    /\ calls[c].result = Failure("El nombre debe tener al menos 2 caracteres")
    /\ calls[c].ops = <<>>

----------------------------------------------------------------------------
(* Claims about getAvailableSlots.                                         *)

Answered == slotsReq # None

Overlaps(slot, ev) == slot.start < ev.end_time /\ ev.start_time < slot.end

\* C7: every slot a getAvailableSlots call returns that a public event of the
\* store, starting on the slot's calendar day, overlaps is marked unavailable.
C7_OverlappedSlotUnavailable ==
  Answered =>
    \A i \in 1..Len(slotsOut) : \A ev \in events :
      (/\ ev.is_public
       /\ ev.start_time \div 86400 = slotsOut[i].start \div 86400
       /\ Overlaps(slotsOut[i], ev))
      => ~slotsOut[i].available

\* C8: a returned slot is marked unavailable only if some public event of the
\* store overlaps it; private events take no slot away.
C8_OnlyPublicEventsOccupy ==
  Answered =>
    \A i \in 1..Len(slotsOut) :
      ~slotsOut[i].available
        => \E ev \in events : ev.is_public /\ Overlaps(slotsOut[i], ev)

C8_Witness ==
  /\ Answered
  /\ \E i \in 1..Len(slotsOut) : ~slotsOut[i].available
  /\ \E j \in 1..Len(slotsOut) :
       /\ slotsOut[j].available
       /\ \E ev \in events : ~ev.is_public /\ Overlaps(slotsOut[j], ev)

----------------------------------------------------------------------------
(* Claims about the date helpers.                                          *)

\* C9: isSlotAvailable returns false iff some booked interval B has
\* slotStart < B.end and B.start < slotEnd; booked intervals that only touch
\* the slot leave it available.
C9_AvailableIffNoOverlap ==
  avOut # None =>
    LET slot == avIn.slot
        booked == avIn.bookedSlots
    IN  /\ ~avOut.available <=>
             \E i \in 1..Len(booked) :
               slot.start < booked[i].end /\ booked[i].start < slot.end
        /\ (\A i \in 1..Len(booked) :
              booked[i].start = slot.end \/ booked[i].end = slot.start)
             => avOut.available

C9_Witness ==
  /\ avOut # None
  /\ avOut.available
  /\ Len(avIn.bookedSlots) = 2
  /\ avIn.bookedSlots[1].end = avIn.slot.start
  /\ avIn.bookedSlots[2].start = avIn.slot.end

\* The rule's wall-clock time <<HH, MM>> on the calendar day of `date`.
OnDay(date, hm) == (date \div 86400) * 86400 + hm[1] * 3600 + hm[2] * 60

\* C10: every slot generateTimeSlots emits is slotDuration long, starts no
\* earlier than the rule's start time and ends no later than the rule's end
\* time on that day; a slotDuration longer than the window yields no slot.
C10_SlotsInsideWindow ==
  genOut # None =>
    LET ruleStart == OnDay(genIn.date, genIn.config.startTime)
        ruleEnd == OnDay(genIn.date, genIn.config.endTime)
    IN  /\ \A i \in 1..Len(genOut.slots) :
             /\ genOut.slots[i].end - genOut.slots[i].start
                  = genIn.config.slotDuration * 60
             /\ genOut.slots[i].start >= ruleStart
             /\ genOut.slots[i].end <= ruleEnd
        /\ genIn.config.slotDuration * 60 > ruleEnd - ruleStart
             => genOut.slots = <<>>

\* C11: the first slot generateTimeSlots emits starts at the rule's start
\* time on that day, and every following slot starts exactly at the previous
\* slot's end plus bufferTime.
C11_Contiguous ==
  (genOut # None /\ genOut.slots # <<>>) =>
    /\ genOut.slots[1].start = OnDay(genIn.date, genIn.config.startTime)
    /\ \A i \in 1..(Len(genOut.slots) - 1) :
         genOut.slots[i + 1].start
           = genOut.slots[i].end + genIn.config.bufferTime * 60

----------------------------------------------------------------------------
(* Claims about the loop of generateTimeSlots.                             *)

\* C12: for slotDuration in 15..480 and bufferTime in 0..120 the loop of
\* generateTimeSlots terminates: every call reaches its return statement,
\* with a finite list.
C12_LoopTerminates == <>(loop.pc = "done" /\ genOut # None)

C12_Witness ==
  /\ loop.pc = "done"
  /\ loop.iterations > Len(genOut.slots)
  /\ Len(genOut.slots) > 1
  /\ genIn.config.bufferTime = 0

----------------------------------------------------------------------------
(* Claims about the rules getAvailableSlots applies and the list it        *)
(* returns.                                                                *)

\* The calendar days of the range of the last call.
RangeDates == {addDays(slotsReq.startDate, k) : k \in 0..(slotsReq.days - 1)}

\* The positions of the returned slots that start on the calendar day of date.
SlotsOn(date) ==
  {i \in 1..Len(slotsOut) : toDateString(slotsOut[i].start) = toDateString(date)}

ReadsSucceeded ==
  ~slotsReq.thrown /\ ~slotsReq.eventsError /\ ~slotsReq.rulesError

\* C13: whenever the owner has at least one persisted rule, getAvailableSlots
\* returns no slot on a day of the range whose weekday has no persisted rule
\* or only a persisted rule with is_active = false (stated here for the calls
\* whose reads all succeed).
C13_NoRuleNoSlots ==
  (Answered /\ rules # {} /\ ReadsSucceeded) =>
    \A date \in RangeDates :
      (\A r \in rules : r.day_of_week = getDay(date) => ~r.is_active)
        => SlotsOn(date) = {}

\* C14: when the read of the booked events fails, by an error of the store or
\* by an exception, getAvailableSlots returns the empty list.
C14_FailClosed ==
  (Answered /\ (slotsReq.eventsError \/ slotsReq.thrown)) => slotsOut = <<>>

C14_Witness ==
  /\ Answered
  /\ slotsReq.eventsError
  /\ slotsOut = <<>>
  /\ session = Owner
  /\ \E r \in rules : r.is_active /\ r.day_of_week = getDay(slotsReq.startDate)

\* The [start, end] pairs of a list of slots.
Times(slots) ==
  {[start |-> slots[i].start, end |-> slots[i].end] : i \in 1..Len(slots)}

\* What the default schedule yields over the range of the last call: Monday
\* to Friday 09:00-18:00, nothing on Saturday and Sunday.
DefaultScheduleTimes ==
  UNION {IF getDay(date) \in 1..5
           THEN Times(generateTimeSlots(date,
                        [startTime |-> <<9, 0>>, endTime |-> <<18, 0>>,
                         slotDuration |-> slotsReq.slotDuration,
                         bufferTime |-> slotsReq.bufferTime]))
           ELSE {} : date \in RangeDates}

\* C15 as stated: when the rule read fails or the owner has no persisted rule,
\* getAvailableSlots returns the slots of the default schedule.
C15_DefaultsOnNoRules ==
  (Answered /\ (slotsReq.rulesError \/ rules = {}))
    => Times(slotsOut) = DefaultScheduleTimes

\* C15: when the read of the booked events succeeds and the rule read fails
\* or the owner has no persisted rule, getAvailableSlots returns the slots of
\* the default schedule.
C15_DefaultsAfterEventsRead ==
  (Answered /\ ~slotsReq.thrown /\ ~slotsReq.eventsError
            /\ (slotsReq.rulesError \/ rules = {}))
    => Times(slotsOut) = DefaultScheduleTimes

C15_Witness ==
  /\ Answered
  /\ slotsReq.rulesError
  /\ rules # {}
  /\ slotsReq.days = 2
  /\ getDay(slotsReq.startDate) = 0
  /\ Len(slotsOut) > 0

\* C18: the list getAvailableSlots returns is in chronological order: slots of
\* an earlier day come before slots of a later day, and inside a day the
\* start times increase strictly.
C18_Chronological ==
  Answered =>
    \A i, j \in 1..Len(slotsOut) :
      i < j => /\ slotsOut[i].start < slotsOut[j].start
               /\ toDateString(slotsOut[i].start) <= toDateString(slotsOut[j].start)

C18_Witness ==
  /\ Answered
  /\ \E i, j \in 1..Len(slotsOut) :
       /\ j > i + 1
       /\ toDateString(slotsOut[i].start) = toDateString(slotsOut[i + 1].start)
       /\ toDateString(slotsOut[i].start) < toDateString(slotsOut[j].start)

\* Minutes between a rule's start and end time.
Window(r) ==
  (r.end_time[1] * 60 + r.end_time[2]) - (r.start_time[1] * 60 + r.start_time[2])

\* The rules a call works with: the active persisted ones the caller may
\* read, the default ones when there is none or their read failed.
RulesInEffect ==
  IF slotsReq.rulesError \/ ~\E r \in RulesVisibleTo(session) : r.is_active
    THEN {DEFAULT_AVAILABILITY_RULES[i] : i \in 1..Len(DEFAULT_AVAILABILITY_RULES)}
    ELSE {r \in RulesVisibleTo(session) : r.is_active}

Widest(rs) == CHOOSE w \in {Window(r) : r \in rs} :
                \A v \in {Window(r) : r \in rs} : v <= w

\* C19 as stated: over `days` days getAvailableSlots returns at most
\* days * floor(W / (d + b)) slots, W the widest rule window in minutes, d the
\* slot duration and b the buffer.
C19_CountBound ==
  Answered =>
    Len(slotsOut) <= slotsReq.days
                       * (Widest(RulesInEffect)
                            \div (slotsReq.slotDuration + slotsReq.bufferTime))

\* C19: over `days` days getAvailableSlots returns at most
\* days * floor((W + b) / (d + b)) slots, the last slot of a day needing no
\* buffer after it; on every single day at most floor((W + b) / (d + b)) for
\* the window W of a rule of that weekday.
C19_CountBoundLastUnbuffered ==
  Answered =>
    LET d == slotsReq.slotDuration
        b == slotsReq.bufferTime
    IN  /\ Len(slotsOut) <= slotsReq.days * ((Widest(RulesInEffect) + b) \div (d + b))
        /\ \A date \in RangeDates :
             \/ SlotsOn(date) = {}
             \/ \E r \in RulesInEffect :
                  /\ r.day_of_week = getDay(date)
                  /\ Cardinality(SlotsOn(date)) <= (Window(r) + b) \div (d + b)

C19_Witness ==
  /\ Answered
  /\ slotsReq.bufferTime > 0
  /\ slotsReq.days = 1
  /\ Len(slotsOut) = 1
  /\ session = Owner
  /\ Widest(RulesInEffect)
       \div (slotsReq.slotDuration + slotsReq.bufferTime) = 0

----------------------------------------------------------------------------
(* Claims about the owner's schedule and settings actions.                 *)

\* The last action to return was `action`, called by the signed-in owner.
OwnerGot(action) ==
  adminOut # None /\ adminOut.action = action /\ adminOut.user = Owner

\* Seven entries in weekday order; with merged = TRUE a weekday with a
\* persisted rule carries the values of a persisted rule of that weekday and
\* every other weekday its default, else every weekday carries its default.
ScheduleAnswer(merged) ==
  /\ adminOut.success
  /\ Len(adminOut.data) = 7
  /\ \A i \in 1..7 :
       LET persisted == {r \in rules : r.user_id = Owner /\ r.day_of_week = i - 1}
       IN  /\ adminOut.data[i].day_of_week = i - 1
           /\ IF merged /\ persisted # {}
                THEN \E r \in persisted :
                       adminOut.data[i] = Day(i - 1, r.start_time, r.end_time,
                                              r.is_active)
                ELSE adminOut.data[i] = Day(i - 1, <<9, 0>>, <<18, 0>>,
                                            (i - 1) \in 1..5)

\* C16 as stated: for the signed-in owner getSchedule returns seven entries
\* in weekday order 0..6, a weekday with a persisted rule carrying the
\* persisted start_time, end_time and is_active, every other weekday its
\* default entry.
C16_PersistedOrDefault == OwnerGot("getSchedule") => ScheduleAnswer(TRUE)

\* C16: for the signed-in owner getSchedule returns seven entries in weekday
\* order 0..6; when the rule read succeeds a weekday with a persisted rule
\* carries the persisted start_time, end_time and is_active and every other
\* weekday its default entry; when the read fails every weekday carries its
\* default entry.
C16_PersistedUnlessReadFails ==
  OwnerGot("getSchedule") => ScheduleAnswer(~adminOut.storeError)

C16_Witness ==
  /\ OwnerGot("getSchedule")
  /\ ~adminOut.storeError
  /\ adminOut.data[1] = DEFAULT_SCHEDULE[1]
  /\ adminOut.data[2] # DEFAULT_SCHEDULE[2]
  /\ \E r1, r2 \in rules : r1 # r2 /\ r1.day_of_week = 1 /\ r2.day_of_week = 1

\* C17: when the owner has no settings record, or the settings read errors,
\* getCalendarSettings returns slot_duration 30, buffer_time 0,
\* advance_booking_days 60 and min_notice_hours 12 and leaves the settings
\* store as it was; the settings store changes only in a successful
\* saveCalendarSettings.
C17_DefaultsWithoutWrite ==
  [][/\ (/\ adminOut' # None
         /\ adminOut'.action = "getCalendarSettings"
         /\ adminOut'.user = Owner
         /\ (adminOut'.storeError \/ ~\E row \in settings : row.user_id = Owner))
        => /\ adminOut'.success
           /\ adminOut'.data.slot_duration = 30
           /\ adminOut'.data.buffer_time = 0
           /\ adminOut'.data.advance_booking_days = 60
           /\ adminOut'.data.min_notice_hours = 12
           /\ settings' = settings
     /\ settings' # settings
        => /\ adminOut'.action = "saveCalendarSettings"
           /\ adminOut'.success]_vars

C17_Witness ==
  /\ OwnerGot("getCalendarSettings")
  /\ adminOut.storeError
  /\ adminOut.data.slot_duration = 30
  /\ \E row \in settings : row.user_id = Owner /\ row.slot_duration = 45

----------------------------------------------------------------------------
(* Claims about booking and the slots loaded afterwards.                   *)

\* C20: after createBooking answered success for (slot_start, slot_end),
\* every later getAvailableSlots call whose range covers the day of
\* slot_start, a one-day range starting on that day included, returns the slot
\* with that start and end with available = false while the event is in the
\* store (stated here for the calls whose reads succeed and the bookings as
\* long as the slots of the call).
C20_BookedSlotUnavailable ==
  [][(slotsReq' # slotsReq /\ ~slotsReq'.thrown /\ ~slotsReq'.eventsError) =>
       \A c \in Callers, ev \in events :
         (/\ calls[c].pc = "done"
          /\ calls[c].result = Success
          /\ ev.id = calls[c].eventId
          /\ ev.end_time - ev.start_time = slotsReq'.slotDuration * 60
          /\ \E k \in 0..(slotsReq'.days - 1) :
               toDateString(addDays(slotsReq'.startDate, k))
                 = toDateString(ev.start_time))
           => \E i \in 1..Len(slotsOut') :
                /\ slotsOut'[i].start = ev.start_time
                /\ slotsOut'[i].end = ev.end_time
                /\ ~slotsOut'[i].available]_vars

----------------------------------------------------------------------------
(* Claims about the dashboard's events and about cancelBooking.            *)

\* No two stored events share an instant; events that only touch do not.
NoOverlap(evs) ==
  \A a, b \in evs :
    a.id # b.id => ~(a.start_time < b.end_time /\ b.start_time < a.end_time)

\* C26: a createEvent or updateEvent call that returns success, on a store
\* whose events do not overlap, leaves a store whose events do not overlap.
C26_EventsNeverOverlap ==
  [][(/\ NoOverlap(events)
      /\ adminOut' # None
      /\ adminOut'.action \in {"createEvent", "updateEvent"}
      /\ adminOut'.success
      /\ UNCHANGED <<calls, session>>)
       => NoOverlap(events')]_vars

\* C27: with one createBooking call at a time, no two events of bookings
\* overlap, whether their times are identical or only partly shared.
C27_BookingsNeverOverlap ==
  \A a, b \in {ev \in events : ev.event_type = "booking"} :
    a.id # b.id => ~(a.start_time < b.end_time /\ b.start_time < a.end_time)

\* C29: when deleteEvent(id) has returned success, no event with that id is
\* stored, whoever created it.
C29_DeletedEventIsGone ==
  (adminOut # None /\ adminOut.action = "deleteEvent" /\ adminOut.success)
    => \A ev \in events : ev.id # adminOut.id

\* C30: a cancelBooking call that returns success sets the status of the
\* addressed booking to cancelled and changes nothing else, so its event is
\* still stored: createBooking finds it for that start and end, and
\* getAvailableSlots reads the same events of the week as before.
C30_CancelOnlyChangesStatus ==
  [][(/\ adminOut' # None
      /\ adminOut'.action = "cancelBooking"
      /\ adminOut'.success
      /\ UNCHANGED <<calls, session>>
      /\ adminOut' # adminOut \/ bookings' # bookings)
       => /\ events' = events
          /\ bookings' = {IF b.id = adminOut'.id
                            THEN [b EXCEPT !.status = "cancelled"] ELSE b :
                          b \in bookings}
          /\ \A b \in bookings, ev \in events :
               (b.id = adminOut'.id /\ ev.id = b.event_id)
                 => /\ EventsAt(events', ev.start_time, ev.end_time) # {}
                    /\ FetchEvents(events', At(0, 0, 0, 0), At(7, 0, 0, 0))
                         = FetchEvents(events, At(0, 0, 0, 0), At(7, 0, 0, 0))]_vars

WriteActions ==
  {"createEvent", "updateEvent", "deleteEvent", "saveSchedule", "saveCalendarSettings"}

\* C21: a call of createEvent, updateEvent, deleteEvent, saveSchedule or
\* saveCalendarSettings made without a signed-in user writes to no table and
\* does not answer success.
C21_NoWriteWithoutUser ==
  [][(/\ adminOut' # None
      /\ adminOut'.action \in WriteActions
      /\ adminOut'.user = NoUser
      /\ UNCHANGED calls)
       => /\ UNCHANGED <<events, bookings, rules, settings>>
          /\ ~adminOut'.success]_vars

\* A visitor's deleteEvent call has been answered while events, rules and
\* settings are stored.
C21_Witness ==
  /\ adminOut # None
  /\ adminOut.action = "deleteEvent"
  /\ adminOut.user = NoUser
  /\ \E ev \in events : ev.id = adminOut.id
  /\ rules # {}
  /\ settings # {}

----------------------------------------------------------------------------
(* Claims about saveSchedule and about failed writes.                      *)

OwnRules(rs) == {r \in rs : r.user_id = Owner}

\* A step in which a saveSchedule call runs its insert and answers.
SaveScheduleAnswers(call) ==
  /\ call \in saving
  /\ saving' = saving \ {call}
  /\ adminOut' # None
  /\ adminOut'.action = "saveSchedule"

\* C22: whatever saveSchedule calls the owner makes, one after the other or
\* side by side, the store holds at most one rule per weekday for the owner,
\* and after a call that answered success the owner's rules are the entries
\* of one submitted schedule.
C22_OneRulePerWeekday ==
  [][/\ \A d \in 0..6 :
          Cardinality({r \in OwnRules(rules') : r.day_of_week = d}) <= 1
     /\ \A call \in saving :
          (SaveScheduleAnswers(call) /\ adminOut'.success)
            => \E schedule \in ScheduleInputs :
                 OwnRules(rules')
                   = RulesToInsert([user |-> Owner, schedule |-> schedule])]_vars

\* C28: a saveSchedule call that answers failure leaves the owner's rules as
\* they were when the call began.
C28_FailedSaveKeepsRules ==
  [][\A call \in saving :
       (SaveScheduleAnswers(call) /\ ~adminOut'.success)
         => OwnRules(rules') = call.before]_vars

\* C23: saveCalendarSettings and saveSchedule answer success = false when a
\* write of theirs failed, the delete of saveSchedule included; createBooking
\* answers success = false when its event insert, its booking insert or its
\* rollback delete failed.
C23_FailedWriteFailsTheCall ==
  [][/\ (/\ adminOut' # None
          /\ adminOut'.action \in {"saveSchedule", "saveCalendarSettings"}
          /\ adminOut'.storeError)
           => ~adminOut'.success
     /\ \A c \in Callers :
          /\ (calls[c].pc = "insertEvent" /\ calls'[c].pc # "insertEvent"
                 /\ events' = events)
               => (calls'[c].pc = "done" /\ ~calls'[c].result.success)
          /\ (calls[c].pc = "insertBooking" /\ calls'[c].pc # "insertBooking"
                 /\ bookings' = bookings)
               => calls'[c].pc = "rollback"
          /\ (calls[c].pc = "rollback" /\ calls'[c].pc # "rollback")
               => (calls'[c].pc = "done" /\ ~calls'[c].result.success)]_vars

----------------------------------------------------------------------------
(* Claims about the appointment page and the saved settings.               *)

\* C24: with a settings row saved, a slot that starts less than its
\* min_notice_hours after now is not bookable: the appointment page does not
\* offer it when it loads its slots, and createBooking does not accept it.
C24_MinNoticeEnforced ==
  [][\A row \in settings :
       /\ (slotsReq' # None /\ <<slotsReq', slotsOut'>> # <<slotsReq, slotsOut>>)
            => \A i \in Offered(slotsOut', now) :
                 slotsOut'[i].start >= now + row.min_notice_hours * 3600
       /\ \A c \in Callers :
            (calls[c].pc # "done" /\ calls'[c].pc = "done"
               /\ calls'[c].result = Success)
              => calls'[c].input.slot_start.t
                   >= calls'[c].acceptedAt + row.min_notice_hours * 3600]_vars

\* C25: once saveCalendarSettings has stored slot_duration d and buffer_time
\* b, the slots the appointment page loads are asked for with d and b, and
\* each of them is d minutes long.
C25_PageUsesSavedSettings ==
  [][\A row \in settings :
       (slotsReq' # None /\ <<slotsReq', slotsOut'>> # <<slotsReq, slotsOut>>)
         => /\ slotsReq'.slotDuration = row.slot_duration
            /\ slotsReq'.bufferTime = row.buffer_time
            /\ \A i \in 1..Len(slotsOut') :
                 slotsOut'[i].end - slotsOut'[i].start = row.slot_duration * 60]_vars

====
